---- MODULE Spec2Model ----
(***************************************************************************)
(* A model of contk/_utils/file_utils.py: the dataset cache.               *)
(*                                                                         *)
(* get_resource(res_name) and import_local_benchmark(res_name, local_path) *)
(* are modelled statement by statement at the granularity of their file    *)
(* system calls, so that calls of several processes interleave and a       *)
(* process can be killed between any two of them.                          *)
(*                                                                         *)
(* What is one step here:                                                  *)
(*   - http_get: the temp file is private to the call, so the download is  *)
(*     one step (or one failure);                                          *)
(*   - open(cache_path, 'wb'), each block of shutil.copyfileobj,           *)
(*     open(meta_path, 'w') and json.dump + close: one step each, all of   *)
(*     them writes to files other processes see;                           *)
(*   - get_hashtag: reads the file as it is at one moment;                 *)
(*   - json.load: reads the side-car as it is at one moment.               *)
(* The variables route, fetched, verified, result, prev, entry and touched *)
(* record what a call did; no statement of the program reads them.         *)
(***************************************************************************)
EXTENDS Naturals, Sequences, FiniteSets, TLC

(***************************************************************************)
(* Bounds.                                                                 *)
(***************************************************************************)
\* number of blocks of a resource body (a block is one buffer of
\* shutil.copyfileobj, the unit in which the cache file is written)
BodyLen == 2

(***************************************************************************)
(* Names, paths and file contents.                                         *)
(***************************************************************************)
\* "a" has a config file in CONFIG_DIR, "u" has none; "a.json" has one only
\* where res_name + '.json' of one resource is the res_name of another
Names == {"a", "a.json", "u"}
Procs == {"p1", "p2"}

DATASET_CACHE_PATH == "cache"

\* os.path.join(cache_dir, res_name)
CachePath(res_name) == DATASET_CACHE_PATH \o "/" \o res_name
\* cache_path + '.json'
MetaPath(res_name) == CachePath(res_name) \o ".json"

\* files outside the cache that import_local_benchmark may be pointed at
LocalPaths == {"tmp/mydata"}
Paths == {CachePath(n) : n \in Names} \cup {MetaPath(n) : n \in Names} \cup LocalPaths

\* the body the descriptor of a name describes, and a body that differs from it
GoodBody == [i \in 1..BodyLen |-> "g"]
BadBody == [i \in 1..BodyLen |-> IF i = BodyLen THEN "x" ELSE "g"]
Bodies == {GoodBody, BadBody}

\* a block of zero bytes: what a write past the end of a file leaves in the gap
Hole == "0"

NoFile == [exists |-> FALSE, data |-> <<>>]
File(d) == [exists |-> TRUE, data |-> d]

\* json.dump(meta, meta_file): the text of {'local_path': p}, one block
JsonDump(meta) == <<"{\"local_path\": \"" \o meta.local_path \o "\"}">>
\* json.load(meta_file) succeeds on exactly the texts json.dump produces
JsonParses(data) == \E p \in Paths : data = JsonDump([local_path |-> p])
JsonLoad(data) == [local_path |-> CHOOSE p \in Paths : data = JsonDump([local_path |-> p])]

\* every block a file of the model can hold, in a fixed order
PathSeq == <<CachePath("a"), MetaPath("a"), CachePath("u"), MetaPath("u"), "tmp/mydata",
             MetaPath("a.json")>>
BlockSeq == <<"g", "x", Hole>> \o [i \in 1..Len(PathSeq) |-> JsonDump([local_path |-> PathSeq[i]])[1]]
BlockCode(b) == CHOOSE i \in 1..Len(BlockSeq) : BlockSeq[i] = b

\* hashlib.md5 over the blocks of a file, as a collision-free function of the
\* content: the blocks' codes as the digits of a number, most significant first
RECURSIVE Md5(_)
Md5(data) ==
    IF Len(data) = 0 THEN 0
    ELSE Md5(SubSeq(data, 1, Len(data) - 1)) * (Len(BlockSeq) + 1) + BlockCode(data[Len(data)])

\* get_file_md5(file_path)
GetFileMd5(files, file_path) == Md5(files[file_path].data)
\* get_hashtag(file_path); no path of the model is a directory
GetHashtag(files, file_path) == GetFileMd5(files, file_path)

\* preprocess and postprocess return the path they are given
Preprocess(local_path) == local_path
Postprocess(local_path) == local_path

\* cache_hashtag == config['hashtag']
\* (variant: the comparison is left out)
HashtagCheckedMut(cache_hashtag, hashtag) == TRUE
HashtagChecked(cache_hashtag, hashtag) == cache_hashtag = hashtag

\* file.write(block) at block offset pos of a file opened by this writer:
\* overwrites in place, extends the file, and leaves a hole when the file was
\* truncated by another writer in the meantime
WriteAt(data, pos, block) ==
    [i \in 1..(IF pos + 1 > Len(data) THEN pos + 1 ELSE Len(data)) |->
        IF i = pos + 1 THEN block
        ELSE IF i <= Len(data) THEN data[i]
        ELSE Hole]

(***************************************************************************)
(* State.                                                                  *)
(***************************************************************************)
VARIABLES
    fs,         \* the file system: path -> file
    config,     \* CONFIG_DIR: name -> descriptor
    remote,     \* what config['link'] of a name serves
    pc,         \* where each process is in its call
    call,       \* the call a process is in, or was last in
    local,      \* the local variables of the call a process is in:
                \*   hashtag     config['hashtag'] as get_config read it
                \*   temp_file   the blocks of the NamedTemporaryFile
                \*   pos         the offset of cache_file in copyfileobj
                \*   cache_path  cache_path (local_path in import_local_benchmark)
    route,      \* "miss", "hit" or "import": the branch the call took
    fetched,    \* the call has called http_get
    verified,   \* the hashtag comparison of the call has succeeded
    result,     \* how the last call of a process ended, none while it is in one
    procs,      \* the processes that use the cache
    prev,       \* one process only: the call before the one it is in or was last in,
                \* if no file was rewritten from outside between the two
    entry,      \* one process only: the cache entry of the name as that call found it
    touched     \* a file was rewritten from outside since the last call began

vars == <<fs, config, remote, pc, call, local, route, fetched, verified, result,
          procs, prev, entry, touched>>

NoResult == [kind |-> "none", path |-> ""]
Ok(path) == [kind |-> "ok", path |-> path]
Raise(error) == [kind |-> error, path |-> ""]

NoConfig == [exists |-> FALSE, hashtag |-> 0]
Config(hashtag) == [exists |-> TRUE, hashtag |-> hashtag]

NoLocals == [hashtag |-> 0, temp_file |-> <<>>, pos |-> 0, cache_path |-> ""]

\* get_config(res_name): the config file is opened and loaded in every call
\* (variant: the descriptor first loaded is kept and used again)
GetConfigMut(descriptors, res_name) ==
    IF res_name = "a" THEN Config(Md5(GoodBody)) ELSE descriptors[res_name]
GetConfig(descriptors, res_name) == descriptors[res_name]

\* os.path.exists(meta_path)
\* (variant: the side-car is never found)
MetaExistsMut(files, meta_path) == FALSE
MetaExists(files, meta_path) == files[meta_path].exists

\* calls follow one another, so that "the call before" and "the cache as the
\* call found it" mean something
Sequential == Cardinality(procs) = 1

NoCall == [op |-> "none", name |-> "", route |-> "none", result |-> NoResult]
NoEntry == [artifact |-> FALSE, data |-> <<>>, meta |-> "none", target |-> "none"]

\* the cache entry of res_name: is there a file under the cache key; is the
\* side-car absent, unparsable or parsed; and is the file the side-car records
\* missing, of another hashtag than the descriptor's, or of that hashtag
EntryOf(res_name) ==
    LET meta == fs[MetaPath(res_name)]
        parsed == meta.exists /\ JsonParses(meta.data)
    IN  [artifact |-> fs[CachePath(res_name)].exists,
         data |-> fs[CachePath(res_name)].data,
         meta |-> IF ~meta.exists THEN "absent"
                  ELSE IF parsed THEN "parsed" ELSE "unparsable",
         target |-> IF ~parsed \/ ~config[res_name].exists THEN "none"
                    ELSE IF ~fs[JsonLoad(meta.data).local_path].exists THEN "missing"
                    ELSE IF Md5(fs[JsonLoad(meta.data).local_path].data) = config[res_name].hashtag
                         THEN "match"
                    ELSE "mismatch"]

Init ==
    /\ \E body \in Bodies :
         fs = [p \in Paths |-> IF p \in LocalPaths THEN File(body) ELSE NoFile]
    /\ config = [n \in Names |-> IF n = "a" THEN Config(Md5(GoodBody)) ELSE NoConfig]
    /\ \E body \in Bodies : remote = [n \in Names |-> IF config[n].exists THEN body ELSE <<>>]
    /\ pc = [p \in Procs |-> "idle"]
    /\ call = [p \in Procs |-> [op |-> "none", name |-> ""]]
    /\ local = [p \in Procs |-> NoLocals]
    /\ route = [p \in Procs |-> "none"]
    /\ fetched = [p \in Procs |-> FALSE]
    /\ verified = [p \in Procs |-> FALSE]
    /\ result = [p \in Procs |-> NoResult]
    /\ procs = Procs
    /\ prev = NoCall
    /\ entry = NoEntry
    /\ touched = FALSE

\* the same with a single process
InitSeq ==
    /\ \E body \in Bodies :
         fs = [p \in Paths |-> IF p \in LocalPaths THEN File(body) ELSE NoFile]
    /\ config = [n \in Names |-> IF n = "a" THEN Config(Md5(GoodBody)) ELSE NoConfig]
    /\ \E body \in Bodies : remote = [n \in Names |-> IF config[n].exists THEN body ELSE <<>>]
    /\ pc = [p \in Procs |-> "idle"]
    /\ call = [p \in Procs |-> [op |-> "none", name |-> ""]]
    /\ local = [p \in Procs |-> NoLocals]
    /\ route = [p \in Procs |-> "none"]
    /\ fetched = [p \in Procs |-> FALSE]
    /\ verified = [p \in Procs |-> FALSE]
    /\ result = [p \in Procs |-> NoResult]
    /\ procs = {"p1"}
    /\ prev = NoCall
    /\ entry = NoEntry
    /\ touched = FALSE

\* two processes, both "a" and "a.json" have a config file, and every body is
\* the one the descriptors name
InitCollide ==
    /\ fs = [p \in Paths |-> IF p \in LocalPaths THEN File(GoodBody) ELSE NoFile]
    /\ config = [n \in Names |-> IF n \in {"a", "a.json"} THEN Config(Md5(GoodBody)) ELSE NoConfig]
    /\ remote = [n \in Names |-> IF config[n].exists THEN GoodBody ELSE <<>>]
    /\ pc = [p \in Procs |-> "idle"]
    /\ call = [p \in Procs |-> [op |-> "none", name |-> ""]]
    /\ local = [p \in Procs |-> NoLocals]
    /\ route = [p \in Procs |-> "none"]
    /\ fetched = [p \in Procs |-> FALSE]
    /\ verified = [p \in Procs |-> FALSE]
    /\ result = [p \in Procs |-> NoResult]
    /\ procs = Procs
    /\ prev = NoCall
    /\ entry = NoEntry
    /\ touched = FALSE

\* a call begins
Enter(p, op, res_name, branch) ==
    /\ pc[p] = "idle"
    /\ call' = [call EXCEPT ![p] = [op |-> op, name |-> res_name]]
    /\ route' = [route EXCEPT ![p] = branch]
    /\ fetched' = [fetched EXCEPT ![p] = FALSE]
    /\ verified' = [verified EXCEPT ![p] = FALSE]
    /\ touched' = FALSE
    /\ prev' = IF Sequential /\ ~touched
               THEN [op |-> call[p].op, name |-> call[p].name,
                     route |-> route[p], result |-> result[p]]
               ELSE NoCall
    /\ entry' = IF Sequential THEN EntryOf(res_name) ELSE NoEntry

\* a call ends, by return or by an exception: its locals are gone, and the
\* NamedTemporaryFile is deleted on leaving the with block
Leave(p, res) ==
    /\ pc' = [pc EXCEPT ![p] = "idle"]
    /\ result' = [result EXCEPT ![p] = res]
    /\ local' = [local EXCEPT ![p] = NoLocals]

\* a call goes on to its next statement
Goto(p, label, locals) ==
    /\ pc' = [pc EXCEPT ![p] = label]
    /\ local' = [local EXCEPT ![p] = locals]
    /\ result' = [result EXCEPT ![p] = NoResult]

(***************************************************************************)
(* get_resource                                                            *)
(***************************************************************************)
\* get_config raises FileNotFoundError
\* (variant: a missing config file is ignored and the download begins)
GetResourceNoConfigMut(p, res_name) ==
    /\ ~config[res_name].exists
    /\ Enter(p, "resolve", res_name, "miss")
    /\ Goto(p, "http_get", [NoLocals EXCEPT !.cache_path = CachePath(res_name)])
    /\ UNCHANGED <<fs, config, remote, procs>>

GetResourceNoConfig(p, res_name) ==
    /\ ~config[res_name].exists
    /\ Enter(p, "resolve", res_name, "none")
    /\ Leave(p, Raise("FileNotFoundError"))
    /\ UNCHANGED <<fs, config, remote, procs>>

\* config = get_config(res_name) ... if not os.path.exists(meta_path)
GetResource(p, res_name) ==
    /\ config[res_name].exists
    /\ LET locals == [NoLocals EXCEPT !.hashtag = GetConfig(config, res_name).hashtag,
                                      !.cache_path = CachePath(res_name)]
       IN  IF ~MetaExists(fs, MetaPath(res_name))
           THEN Enter(p, "resolve", res_name, "miss") /\ Goto(p, "http_get", locals)
           ELSE Enter(p, "resolve", res_name, "hit") /\ Goto(p, "load", locals)
    /\ UNCHANGED <<fs, config, remote, procs>>

\* http_get(url, temp_file) streams the whole body into the temp file
HttpGet(p) ==
    /\ pc[p] = "http_get"
    /\ fetched' = [fetched EXCEPT ![p] = TRUE]
    /\ Goto(p, "open", [local[p] EXCEPT !.temp_file = remote[call[p].name]])
    /\ UNCHANGED <<fs, config, remote, procs, prev, entry, touched, call, route, verified>>

\* requests raises in http_get
\* (variant: the file under the cache key is created before the request fails)
HttpGetFailsMut(p) ==
    /\ pc[p] = "http_get"
    /\ fs' = [fs EXCEPT ![local[p].cache_path] = File(<<>>)]
    /\ fetched' = [fetched EXCEPT ![p] = TRUE]
    /\ Leave(p, Raise("RequestException"))
    /\ UNCHANGED <<config, remote, procs, prev, entry, touched, call, route, verified>>

HttpGetFails(p) ==
    /\ pc[p] = "http_get"
    /\ fetched' = [fetched EXCEPT ![p] = TRUE]
    /\ Leave(p, Raise("RequestException"))
    /\ UNCHANGED <<fs, config, remote, procs, prev, entry, touched, call, route, verified>>

\* open(cache_path, 'wb') creates or truncates the file under the final name
OpenCacheFile(p) ==
    /\ pc[p] = "open"
    /\ fs' = [fs EXCEPT ![local[p].cache_path] = File(<<>>)]
    /\ Goto(p, IF Len(local[p].temp_file) = 0 THEN "hash" ELSE "copy",
            [local[p] EXCEPT !.pos = 0])
    /\ UNCHANGED <<config, remote, procs, prev, entry, touched, call, route, fetched, verified>>

\* shutil.copyfileobj(temp_file, cache_file): one block per step
CopyFileObj(p) ==
    /\ pc[p] = "copy"
    /\ LET l == local[p]
       IN  /\ l.pos < Len(l.temp_file)
           /\ fs' = [fs EXCEPT ![l.cache_path] =
                       File(WriteAt(fs[l.cache_path].data, l.pos, l.temp_file[l.pos + 1]))]
           /\ Goto(p, IF l.pos + 1 = Len(l.temp_file) THEN "hash" ELSE "copy",
                   [l EXCEPT !.pos = l.pos + 1])
    /\ UNCHANGED <<config, remote, procs, prev, entry, touched, call, route, fetched, verified>>

\* the else branch of the comparison on the cache-miss branch: raise
\* ValueError; the file under cache_path stays
\* (variant: the side-car is written before the comparison)
MissMismatchMut(p) ==
    /\ fs' = [fs EXCEPT ![MetaPath(call[p].name)] =
                File(JsonDump([local_path |-> local[p].cache_path]))]
    /\ Leave(p, Raise("ValueError"))
MissMismatch(p) ==
    /\ UNCHANGED fs
    /\ Leave(p, Raise("ValueError"))

\* cache_path = preprocess(...); cache_hashtag = get_hashtag(cache_path);
\* if cache_hashtag == config['hashtag'] ... else raise ValueError
CheckDownloaded(p) ==
    /\ pc[p] = "hash"
    /\ LET path == Preprocess(local[p].cache_path)
           cache_hashtag == GetHashtag(fs, path)
       IN  /\ verified' = [verified EXCEPT ![p] = (Md5(fs[path].data) = local[p].hashtag)]
           /\ IF HashtagChecked(cache_hashtag, local[p].hashtag)
              THEN /\ Goto(p, "meta_open", [local[p] EXCEPT !.cache_path = path])
                   /\ UNCHANGED fs
              ELSE MissMismatch(p)
    /\ UNCHANGED <<config, remote, procs, prev, entry, touched, call, route, fetched>>

\* open(meta_path, 'w') creates or truncates the side-car
OpenMetaFile(p) ==
    /\ pc[p] = "meta_open"
    /\ fs' = [fs EXCEPT ![MetaPath(call[p].name)] = File(<<>>)]
    /\ Goto(p, "meta_dump", local[p])
    /\ UNCHANGED <<config, remote, procs, prev, entry, touched, call, route, fetched, verified>>

\* json.dump(meta, meta_file), the file is closed, return postprocess(cache_path)
DumpMeta(p) ==
    /\ pc[p] = "meta_dump"
    /\ fs' = [fs EXCEPT ![MetaPath(call[p].name)] =
                File(JsonDump([local_path |-> local[p].cache_path]))]
    /\ Leave(p, Ok(Postprocess(local[p].cache_path)))
    /\ UNCHANGED <<config, remote, procs, prev, entry, touched, call, route, fetched, verified>>

\* meta = json.load(meta_file); cache_path = meta['local_path']
\* (variant: a side-car that does not parse is taken for a missing one)
LoadMetaMut(p) ==
    /\ pc[p] = "load"
    /\ LET data == fs[MetaPath(call[p].name)].data
       IN  IF JsonParses(data)
           THEN Goto(p, "hit_hash", [local[p] EXCEPT !.cache_path = JsonLoad(data).local_path])
           ELSE Goto(p, "http_get", local[p])
    /\ UNCHANGED <<fs, config, remote, procs, prev, entry, touched, call, route, fetched, verified>>

LoadMeta(p) ==
    /\ pc[p] = "load"
    /\ LET data == fs[MetaPath(call[p].name)].data
       IN  IF JsonParses(data)
           THEN Goto(p, "hit_hash", [local[p] EXCEPT !.cache_path = JsonLoad(data).local_path])
           ELSE Leave(p, Raise("JSONDecodeError"))
    /\ UNCHANGED <<fs, config, remote, procs, prev, entry, touched, call, route, fetched, verified>>

\* the else branch of the comparison on the cache-hit branch: raise ValueError
\* (variant: the resource is downloaded again)
HitMismatchMut(p) == Goto(p, "http_get", local[p])
HitMismatch(p) == Leave(p, Raise("ValueError"))

\* cache_hashtag = get_hashtag(cache_path); compare; return or raise
\* (variant: the recorded path is returned without the comparison)
CheckCachedMut(p) ==
    /\ pc[p] = "hit_hash"
    /\ Leave(p, Ok(Postprocess(local[p].cache_path)))
    /\ UNCHANGED <<fs, config, remote, procs, prev, entry, touched, call, route, fetched, verified>>
CheckCached(p) ==
    /\ pc[p] = "hit_hash"
    /\ LET path == local[p].cache_path
       IN  IF ~fs[path].exists
           THEN /\ Leave(p, Raise("FileNotFoundError"))
                /\ UNCHANGED verified
           ELSE LET cache_hashtag == GetHashtag(fs, path)
                IN  /\ verified' = [verified EXCEPT ![p] = (Md5(fs[path].data) = local[p].hashtag)]
                    /\ IF HashtagChecked(cache_hashtag, local[p].hashtag)
                       THEN Leave(p, Ok(Postprocess(path)))
                       ELSE HitMismatch(p)
    /\ UNCHANGED <<fs, config, remote, procs, prev, entry, touched, call, route, fetched>>

(***************************************************************************)
(* import_local_benchmark                                                  *)
(***************************************************************************)
\* get_config raises FileNotFoundError
ImportLocalBenchmarkNoConfig(p, res_name) ==
    /\ ~config[res_name].exists
    /\ Enter(p, "import", res_name, "none")
    /\ Leave(p, Raise("FileNotFoundError"))
    /\ UNCHANGED <<fs, config, remote, procs>>

\* config = get_config(res_name)
ImportLocalBenchmark(p, res_name, local_path) ==
    /\ config[res_name].exists
    /\ Enter(p, "import", res_name, "import")
    /\ Goto(p, "import_hash", [NoLocals EXCEPT !.hashtag = GetConfig(config, res_name).hashtag,
                                               !.cache_path = local_path])
    /\ UNCHANGED <<fs, config, remote, procs>>

\* local_hashtag = get_hashtag(local_path); compare
CheckLocal(p) ==
    /\ pc[p] = "import_hash"
    /\ LET path == local[p].cache_path
       IN  IF ~fs[path].exists
           THEN /\ Leave(p, Raise("FileNotFoundError"))
                /\ UNCHANGED verified
           ELSE LET local_hashtag == GetHashtag(fs, path)
                IN  /\ verified' = [verified EXCEPT ![p] = (Md5(fs[path].data) = local[p].hashtag)]
                    /\ IF HashtagChecked(local_hashtag, local[p].hashtag)
                       THEN Goto(p, "import_meta_open", local[p])
                       ELSE Leave(p, Raise("ValueError"))
    /\ UNCHANGED <<fs, config, remote, procs, prev, entry, touched, call, route, fetched>>

\* open(meta_path, 'w')
ImportOpenMetaFile(p) ==
    /\ pc[p] = "import_meta_open"
    /\ fs' = [fs EXCEPT ![MetaPath(call[p].name)] = File(<<>>)]
    /\ Goto(p, "import_meta_dump", local[p])
    /\ UNCHANGED <<config, remote, procs, prev, entry, touched, call, route, fetched, verified>>

\* json.dump(meta, meta_file); return postprocess(local_path)
\* (variant: the side-car records the path under the cache key)
ImportDumpMetaMut(p) ==
    /\ pc[p] = "import_meta_dump"
    /\ fs' = [fs EXCEPT ![MetaPath(call[p].name)] =
                File(JsonDump([local_path |-> CachePath(call[p].name)]))]
    /\ Leave(p, Ok(Postprocess(local[p].cache_path)))
    /\ UNCHANGED <<config, remote, procs, prev, entry, touched, call, route, fetched, verified>>
ImportDumpMeta(p) ==
    /\ pc[p] = "import_meta_dump"
    /\ fs' = [fs EXCEPT ![MetaPath(call[p].name)] =
                File(JsonDump([local_path |-> local[p].cache_path]))]
    /\ Leave(p, Ok(Postprocess(local[p].cache_path)))
    /\ UNCHANGED <<config, remote, procs, prev, entry, touched, call, route, fetched, verified>>

(***************************************************************************)
(* The process is killed in the middle of a call: the files stay as they   *)
(* are.                                                                    *)
(***************************************************************************)
Crash(p) ==
    /\ pc[p] # "idle"
    /\ Leave(p, Raise("killed"))
    /\ UNCHANGED <<fs, config, remote, procs, prev, entry, touched, call, route, fetched, verified>>

\* what import_local_benchmark is pointed at
ImportArgs == LocalPaths \cup {CachePath("a")}

\* one statement of one process
Next ==
    \/ \E p \in procs, n \in Names : GetResourceNoConfig(p, n)
    \/ \E p \in procs, n \in Names : GetResource(p, n)
    \/ \E p \in procs : HttpGet(p)
    \/ \E p \in procs : HttpGetFails(p)
    \/ \E p \in procs : OpenCacheFile(p)
    \/ \E p \in procs : CopyFileObj(p)
    \/ \E p \in procs : CheckDownloaded(p)
    \/ \E p \in procs : OpenMetaFile(p)
    \/ \E p \in procs : DumpMeta(p)
    \/ \E p \in procs : LoadMeta(p)
    \/ \E p \in procs : CheckCached(p)
    \/ \E p \in procs, n \in Names : ImportLocalBenchmarkNoConfig(p, n)
    \/ \E p \in procs, n \in Names, l \in ImportArgs : ImportLocalBenchmark(p, n, l)
    \/ \E p \in procs : CheckLocal(p)
    \/ \E p \in procs : ImportOpenMetaFile(p)
    \/ \E p \in procs : ImportDumpMeta(p)
    \/ \E p \in procs : Crash(p)

(***************************************************************************)
(* Somebody else rewrites a file that a side-car may point at, between two *)
(* calls.                                                                  *)
(***************************************************************************)
Tamper(path, body) ==
    /\ \A p \in procs : pc[p] = "idle"
    /\ fs[path].exists
    /\ fs[path].data # body
    /\ fs' = [fs EXCEPT ![path] = File(body)]
    /\ touched' = TRUE
    /\ UNCHANGED <<config, remote, pc, call, local, route, fetched, verified, result,
                   procs, prev, entry>>

NextTamper ==
    \/ Next
    \/ \E path \in {CachePath(n) : n \in {m \in Names : config[m].exists}} \cup LocalPaths,
          body \in Bodies :
          Tamper(path, body)

\* between two calls the config file of a name is replaced by one with another
\* hashtag; no file of the cache is touched
ChangeDescriptor(res_name, hashtag) ==
    /\ \A p \in procs : pc[p] = "idle"
    /\ config[res_name].exists
    /\ config[res_name].hashtag # hashtag
    /\ config' = [config EXCEPT ![res_name] = Config(hashtag)]
    /\ UNCHANGED <<fs, remote, pc, call, local, route, fetched, verified, result,
                   procs, prev, entry, touched>>

NextDescriptor ==
    \/ Next
    \/ \E res_name \in Names, body \in Bodies : ChangeDescriptor(res_name, Md5(body))

\* processes calling get_resource and import_local_benchmark concurrently
Spec == Init /\ [][Next]_vars
\* one process calling them one after the other
SpecSeq == InitSeq /\ [][Next]_vars
\* one process, and files rewritten from outside between its calls
SpecTamper == InitSeq /\ [][NextTamper]_vars
\* one process, and config files replaced between its calls
SpecDescriptor == InitSeq /\ [][NextDescriptor]_vars
\* concurrent processes, and two resources named "a" and "a.json"
SpecCollide == InitCollide /\ [][Next]_vars

(***************************************************************************)
(* Properties.                                                             *)
(***************************************************************************)
Registered(n) == config[n].exists
Idle(p) == pc[p] = "idle"
\* the call of p has ended, and not by the process being killed
Ended(p) == Idle(p) /\ result[p].kind \notin {"none", "killed"}
\* the call of p is get_resource(n), and the call before it was too
Repeats(p) ==
    /\ call[p].op = "resolve"
    /\ prev.op = "resolve"
    /\ prev.name = call[p].name

\* what the side-car of n records
Recorded(n) == JsonLoad(fs[MetaPath(n)].data).local_path

\* C1: whenever the side-car of a name exists (and parses), the file it
\* records exists, is a complete body and has the hashtag of the descriptor.
C1_MetaImpliesArtifact ==
    \A n \in Names :
        (fs[MetaPath(n)].exists /\ JsonParses(fs[MetaPath(n)].data)) =>
            /\ fs[Recorded(n)].exists
            /\ fs[Recorded(n)].data \in Bodies
            /\ Md5(fs[Recorded(n)].data) = config[n].hashtag

\* C2: every step that creates or changes the side-car of a name is a step of
\* a call for that name whose hashtag comparison has succeeded before.
C2_MetaOnlyAfterCheck ==
    [][\A n \in Names :
          fs'[MetaPath(n)] # fs[MetaPath(n)] =>
              \E p \in procs :
                  /\ pc[p] # "idle"
                  /\ pc'[p] # pc[p]
                  /\ call[p].name = n
                  /\ verified[p]]_vars

C2_Witness ==
    \E p \in procs :
        /\ Idle(p)
        /\ route[p] = "miss"
        /\ verified[p]
        /\ result[p] = Ok(CachePath(call[p].name))
        /\ fs[MetaPath(call[p].name)] = File(JsonDump([local_path |-> result[p].path]))

C4_NoPartialUnderFinalName ==
    \A n \in Names :
        fs[CachePath(n)].exists => fs[CachePath(n)].data \in Bodies

\* C5: when the remote body has the descriptor's hashtag and every process is
\* in, or has ended, a get_resource of the same name on the cache-miss branch,
\* none of them raises ValueError, and once all have returned the file under
\* the cache key is the complete body and the side-car records it.
C5_ConcurrentMissesDoNotCorrupt ==
    \A n \in Names :
        ( /\ Registered(n)
          /\ Md5(remote[n]) = config[n].hashtag
          /\ \A p \in procs :
                call[p] = [op |-> "resolve", name |-> n] /\ route[p] = "miss" ) =>
            /\ \A p \in procs : result[p].kind # "ValueError"
            /\ (\A p \in procs : Idle(p) /\ result[p].kind = "ok") =>
                  /\ fs[CachePath(n)] = File(remote[n])
                  /\ fs[MetaPath(n)] = File(JsonDump([local_path |-> CachePath(n)]))

\* C6: a get_resource that follows a get_resource of the same name that
\* returned a path never calls http_get, and returns that path.
C6_Idempotent ==
    \A p \in procs :
        (Repeats(p) /\ prev.result.kind = "ok") =>
            /\ ~fetched[p]
            /\ Ended(p) => result[p] = prev.result

C6_Witness ==
    \E p \in procs :
        /\ Repeats(p)
        /\ prev.result.kind = "ok"
        /\ Ended(p)
        /\ result[p] = Ok(CachePath(call[p].name))

\* C7: a get_resource that finds a parsed side-car whose file has another
\* hashtag than the descriptor's raises ValueError.
C7_TamperDetected ==
    \A p \in procs :
        ( /\ call[p].op = "resolve"
          /\ entry.meta = "parsed"
          /\ entry.target = "mismatch"
          /\ Ended(p) ) =>
            result[p] = Raise("ValueError")

C7_Witness ==
    \E p \in procs :
        /\ call[p].op = "resolve"
        /\ entry.target = "mismatch"
        /\ route[p] = "hit"
        /\ Ended(p)
        /\ result[p] = Raise("ValueError")

\* C8: no step of a call on the cache-hit branch changes a file or calls
\* http_get; and a get_resource that follows, with no file rewritten in
\* between, a get_resource of the same name that raised ValueError on the
\* cache-hit branch takes that branch and raises ValueError again.
C8_HitWritesNothing ==
    /\ [][\A p \in procs :
            (route'[p] = "hit" /\ (pc[p] # "idle" \/ pc'[p] # "idle")) =>
                (fs' = fs /\ ~fetched'[p])]_vars
    /\ [](\A p \in procs :
            ( /\ Repeats(p)
              /\ prev.route = "hit"
              /\ prev.result.kind = "ValueError" ) =>
                /\ route[p] = "hit"
                /\ Ended(p) => result[p] = Raise("ValueError"))

C8_Witness ==
    \E p \in procs :
        /\ Repeats(p)
        /\ prev.route = "hit"
        /\ prev.result.kind = "ValueError"
        /\ route[p] = "hit"
        /\ Ended(p)
        /\ result[p] = Raise("ValueError")

\* C9: when get_resource has raised ValueError on the cache-miss branch there
\* is no side-car of the name, and a get_resource of the same name that
\* follows takes the cache-miss branch and calls http_get.
C9_MismatchCommitsNothing ==
    \A p \in procs :
        /\ ( /\ call[p].op = "resolve"
             /\ route[p] = "miss"
             /\ Idle(p)
             /\ result[p].kind = "ValueError" ) =>
               ~fs[MetaPath(call[p].name)].exists
        /\ ( /\ Repeats(p)
             /\ prev.route = "miss"
             /\ prev.result.kind = "ValueError" ) =>
               /\ route[p] = "miss"
               /\ (pc[p] # "http_get" /\ result[p].kind # "killed") => fetched[p]

C9_Witness ==
    \E p \in procs :
        /\ Repeats(p)
        /\ prev.route = "miss"
        /\ prev.result.kind = "ValueError"
        /\ route[p] = "miss"
        /\ fetched[p]
        /\ Idle(p)
        /\ result[p].kind = "ValueError"
        /\ ~fs[MetaPath(call[p].name)].exists

\* C10: when get_resource has raised ValueError on the cache-miss branch there
\* is no file under the cache key of the name.
C10_MismatchLeavesNoArtifact ==
    \A p \in procs :
        ( /\ call[p].op = "resolve"
          /\ route[p] = "miss"
          /\ Idle(p)
          /\ result[p].kind = "ValueError" ) =>
            ~fs[CachePath(call[p].name)].exists

\* C11: a side-car that exists and parses is the same after every step.
C11_MetaNeverRewritten ==
    [][\A n \in Names :
          (fs[MetaPath(n)].exists /\ JsonParses(fs[MetaPath(n)].data)) =>
              fs'[MetaPath(n)] = fs[MetaPath(n)]]_vars

\* C12: a get_resource that follows, with no file rewritten in between, an
\* import_local_benchmark of the same name that returned a path takes the
\* cache-hit branch, never calls http_get, and returns that path.
C12_ImportThenHit ==
    \A p \in procs :
        ( /\ call[p].op = "resolve"
          /\ prev.op = "import"
          /\ prev.name = call[p].name
          /\ prev.result.kind = "ok" ) =>
            /\ route[p] = "hit"
            /\ ~fetched[p]
            /\ Ended(p) => result[p] = prev.result

C12_Witness ==
    \E p \in procs :
        /\ call[p].op = "resolve"
        /\ prev.op = "import"
        /\ prev.name = call[p].name
        /\ prev.result = Ok("tmp/mydata")
        /\ route[p] = "hit"
        /\ Ended(p)
        /\ result[p] = Ok("tmp/mydata")

\* C13: at every return of a path p by get_resource or import_local_benchmark
\* the side-car of the name holds exactly {local_path: p} and p exists.
C13_ReturnMatchesMeta ==
    [][\A p \in procs :
          (pc[p] # "idle" /\ pc'[p] = "idle" /\ result'[p].kind = "ok") =>
              /\ fs'[MetaPath(call[p].name)] =
                    File(JsonDump([local_path |-> result'[p].path]))
              /\ fs'[result'[p].path].exists]_vars


\* C14: a step of a running call for one name leaves the artifact and the
\* side-car of every other registered name as they were.
C14_OtherNamesUntouched ==
    [][\A p \in procs : \A n \in Names :
          ( /\ pc[p] # "idle"
            /\ pc'[p] # pc[p]
            /\ Registered(n)
            /\ n # call[p].name ) =>
              /\ fs'[CachePath(n)] = fs[CachePath(n)]
              /\ fs'[MetaPath(n)] = fs[MetaPath(n)]]_vars

\* C19: the artifact path and the side-car path of a registered name are
\* different from the artifact path and the side-car path of every other
\* registered name.
C19_PathsDisjoint ==
    \A a \in Names : \A b \in Names :
        (Registered(a) /\ Registered(b) /\ a # b) =>
            {CachePath(a), MetaPath(a)} \cap {CachePath(b), MetaPath(b)} = {}

\* C15: when get_resource has raised the error of http_get on the cache-miss
\* branch, the temporary file is gone, there is no side-car of the name, the
\* file under the cache key is as the call found it, and a get_resource of
\* the same name that follows takes the cache-miss branch.
C15_FetchErrorCommitsNothing ==
    \A p \in procs :
        /\ ( /\ call[p].op = "resolve"
             /\ route[p] = "miss"
             /\ Idle(p)
             /\ result[p] = Raise("RequestException") ) =>
               /\ local[p].temp_file = <<>>
               /\ ~fs[MetaPath(call[p].name)].exists
               /\ fs[CachePath(call[p].name)].exists = entry.artifact
               /\ fs[CachePath(call[p].name)].data = entry.data
        /\ ( /\ Repeats(p)
             /\ prev.route = "miss"
             /\ prev.result = Raise("RequestException") ) =>
               route[p] = "miss"

C15_Witness ==
    \E p \in procs :
        /\ Repeats(p)
        /\ prev.route = "miss"
        /\ prev.result = Raise("RequestException")
        /\ route[p] = "miss"
        /\ Idle(p)
        /\ result[p] = Raise("RequestException")
        /\ ~fs[CachePath(call[p].name)].exists

\* C16: a get_resource that finds a side-car which does not parse raises the
\* error of json.load, never calls http_get, and none of its steps changes a
\* file.
C16_UnparsableMetaRaises ==
    /\ [](\A p \in procs :
            (call[p].op = "resolve" /\ entry.meta = "unparsable") =>
                /\ ~fetched[p]
                /\ pc[p] \in {"idle", "load"}
                /\ Ended(p) => result[p] = Raise("JSONDecodeError"))
    /\ [][\A p \in procs :
            ( /\ call[p].op = "resolve"
              /\ entry.meta = "unparsable"
              /\ pc[p] # "idle" ) => fs' = fs]_vars

C16_Witness ==
    \E p \in procs :
        /\ call[p].op = "resolve"
        /\ entry.meta = "unparsable"
        /\ Ended(p)
        /\ result[p] = Raise("JSONDecodeError")
        /\ fs[MetaPath(call[p].name)].exists
        /\ ~JsonParses(fs[MetaPath(call[p].name)].data)

\* C17: a get_resource or import_local_benchmark of a name without a config
\* file has raised FileNotFoundError at once: it is on no branch, has called
\* neither http_get nor the hashtag comparison, and the step that makes the
\* call changes no file.
C17_NoConfigRaisesFirst ==
    /\ [](\A p \in procs :
            (call[p].op \in {"resolve", "import"} /\ ~Registered(call[p].name)) =>
                /\ Idle(p)
                /\ result[p] = Raise("FileNotFoundError")
                /\ route[p] = "none"
                /\ ~fetched[p]
                /\ ~verified[p])
    /\ [][\A p \in procs :
            ( /\ call'[p].op \in {"resolve", "import"}
              /\ ~Registered(call'[p].name)
              /\ (call'[p] # call[p] \/ result'[p] # result[p]) ) => fs' = fs]_vars

C17_Witness ==
    \E p \in procs : \E q \in procs :
        /\ call[p].op = "import"
        /\ call[q].op = "resolve"
        /\ ~Registered(call[p].name)
        /\ ~Registered(call[q].name)
        /\ result[p] = Raise("FileNotFoundError")
        /\ result[q] = Raise("FileNotFoundError")
        /\ fs[MetaPath("a")].exists

\* C18: a running call compares with the hashtag the config file has now;
\* and a get_resource that follows a successful call of the same name and
\* finds that the recorded file has not the hashtag of the config file takes
\* the cache-hit branch, does not call http_get, and raises ValueError.
C18_DescriptorReadAnew ==
    \A p \in procs :
        /\ ~Idle(p) => local[p].hashtag = config[call[p].name].hashtag
        /\ ( /\ call[p].op = "resolve"
             /\ prev.name = call[p].name
             /\ prev.result.kind = "ok"
             /\ entry.target = "mismatch" ) =>
               /\ route[p] = "hit"
               /\ ~fetched[p]
               /\ Ended(p) => result[p] = Raise("ValueError")

C18_Witness ==
    \E p \in procs :
        /\ call[p].op = "resolve"
        /\ prev.name = call[p].name
        /\ prev.op = "resolve"
        /\ prev.route = "miss"
        /\ prev.result = Ok(CachePath(call[p].name))
        /\ fs[CachePath(call[p].name)] = File(GoodBody)
        /\ config[call[p].name].hashtag = Md5(BadBody)
        /\ route[p] = "hit"
        /\ Ended(p)
        /\ result[p] = Raise("ValueError")

====
